---- MODULE Spec2Model ----
(***************************************************************************)
(* Model of gwsurrogate/surrogate.py: the single-mode evaluator            *)
(* (EvaluateSingleModeSurrogate) and the multi-mode evaluator              *)
(* (EvaluateSurrogate).                                                    *)
(*                                                                         *)
(* Numbers.  Real numbers are integers; the one division whose result is   *)
(* not an integer (the affine map) is kept as a fraction <<n, d>>.  A      *)
(* complex number is a pair <<re, im>>.  Phases are counted in quarter     *)
(* turns (units of pi/2), so that exp(1j*phase) is one of 1, i, -1, -i.    *)
(* Python's None is the empty tuple <<>> and a value v that may be None is *)
(* carried as <<v>>.                                                       *)
(***************************************************************************)
EXTENDS Integers, Sequences, FiniteSets, TLC

(***************************************************************************)
(* Bounds of the model.                                                    *)
(***************************************************************************)
\* number of samples of the native time grid
NumTimes == 3
\* largest ell of a mode in the model or in a request
MaxEll == 3
\* largest mass ratio q drawn as an input
MaxQ == 4
\* largest absolute value of the end points of a fit interval and of x
MaxX == 3

None == <<>>
Some(v) == <<v>>
IsNone(o) == o = <<>>
Val(o) == o[1]

(***************************************************************************)
(* numpy arithmetic on complex numbers and arrays                          *)
(***************************************************************************)
CAdd(a, b) == <<a[1] + b[1], a[2] + b[2]>>
CMul(a, b) == <<a[1] * b[1] - a[2] * b[2], a[1] * b[2] + a[2] * b[1]>>
CScale(r, a) == <<r * a[1], r * a[2]>>
\* np.exp(1j*k) with k in quarter turns
Cis(k) ==
  CASE k % 4 = 0 -> <<1, 0>>
    [] k % 4 = 1 -> <<0, 1>>
    [] k % 4 = 2 -> <<-1, 0>>
    [] OTHER     -> <<0, -1>>

RECURSIVE CSum(_)
\* sum of a sequence of complex numbers
CSum(s) == IF s = <<>> THEN <<0, 0>> ELSE CAdd(s[1], CSum(Tail(s)))

RECURSIVE ISum(_)
\* sum of a sequence of integers
ISum(s) == IF s = <<>> THEN 0 ELSE s[1] + ISum(Tail(s))

\* np.dot(B, v): B a matrix of complex rows, v a complex vector
CDot(B, v) == [i \in 1..Len(B) |-> CSum([j \in 1..Len(v) |-> CMul(B[i][j], v[j])])]
\* np.dot(B, v): B a real matrix, v a real vector
RDot(B, v) == [i \in 1..Len(B) |-> ISum([j \in 1..Len(v) |-> B[i][j] * v[j]])]
\* np.power(-1, ell)
PowMinus1(ell) == IF ell % 2 = 0 THEN 1 ELSE -1
\* elementwise scalar * array and array + array
VScale(r, v) == [i \in 1..Len(v) |-> r * v[i]]
VAdd(a, b) == [i \in 1..Len(a) |-> a[i] + b[i]]
Zeros(n) == [i \in 1..n |-> 0]
Re(h) == [i \in 1..Len(h) |-> h[i][1]]
Im(h) == [i \in 1..Len(h) |-> h[i][2]]
\* hp + 1.0j*hc
Complex(hp, hc) == [i \in 1..Len(hp) |-> <<hp[i], hc[i]>>]

(***************************************************************************)
(* Collaborators outside surrogate.py: const_mks, parametric_funcs,        *)
(* gwtools, harmonics, scipy's splines, and the data the loader supplies.  *)
(***************************************************************************)
\* mks.Msuninsec: seconds per solar mass
Msuninsec == 2
\* mks.Msun * mks.G / (mks.Mpcinm * c^2): strain of one solar mass at 1 Mpc
AmpUnit == 2
\* reduced-basis dimension of every mode of the model
DimRB == 2
\* fit_interval of every mode of the model
FitMin == 1
FitMax == 3

\* my_funcs[fit_type](coeffs, x_0): a polynomial c0 + c1*x_0 in the fraction
\* x_0 = <<n, d>>; the model's coefficients c1 are multiples of every d that
\* occurs, so the value is an integer
FitFunc(coeffs, x_0) == coeffs[1] + (coeffs[2] * x_0[1]) \div x_0[2]

\* splrep(times, column): the interpolating spline, known at its knots
Splrep(times, col) == [knots |-> times, vals |-> col]
\* splev(samples, spline) at samples that are knots of the spline
Splev(samples, spl) ==
  [i \in 1..Len(samples) |->
     spl.vals[CHOOSE k \in 1..Len(spl.knots) : spl.knots[k] = samples[i]]]

\* phase of a complex number, to the quarter turn below it
Quadrant(z) ==
  CASE z[1] > 0 /\ z[2] >= 0 -> 0
    [] z[1] <= 0 /\ z[2] > 0 -> 1
    [] z[1] < 0 /\ z[2] <= 0 -> 2
    [] z[1] >= 0 /\ z[2] < 0 -> 3
    [] OTHER -> 0

\* gwtools.find_instant_freq(hp, hc, t): the phase advance over the first
\* time step, as the fraction <<quarter turns, time>>
GwFindInstantFreq(hp, hc, t) ==
  <<(Quadrant(<<hp[2], hc[2]>>) - Quadrant(<<hp[1], hc[1]>>)) % 4, t[2] - t[1]>>

\* np.argmax(amp): the first index of the largest amplitude
ArgmaxAmp(h) ==
  LET a2(i) == h[i][1] * h[i][1] + h[i][2] * h[i][2]
  IN CHOOSE i \in 1..Len(h) :
       /\ \A j \in 1..Len(h) : a2(j) <= a2(i)
       /\ \A j \in 1..(i - 1) : a2(j) < a2(i)

\* gwtools.modify_phase(h, phiadj) = h*exp(1j*phiadj)
ModifyPhase(h, phiadj) == [i \in 1..Len(h) |-> CMul(h[i], Cis(phiadj))]

\* harmonics.sYlm(-2, ll, mm, theta, phi) = d(ll, mm, theta)*exp(1j*mm*phi)
sYlm(ll, mm, theta, phi) == CScale(ll + mm * theta + 1, Cis(mm * phi))

\* get_surr_params(q) for the parameterization q_to_q
GetSurrParams(q) == q

\* the data the loader (H5Surrogate / TextSurrogateRead) sets on a
\* single-mode evaluator for mode (ell, m); smt and amap are the tags it read
LoadSingleMode(ell, m, smt, amap) ==
  [ surrogate_mode_type |-> smt,
    affine_map |-> amap,
    fit_interval |-> <<FitMin, FitMax>>,
    times |-> [i \in 1..NumTimes |-> i - 1],
    dim_rb |-> DimRB,
    B |-> [i \in 1..NumTimes |-> [j \in 1..DimRB |-> <<ell * i + j, m + i * j>>]],
    B_1 |-> [i \in 1..NumTimes |-> [j \in 1..DimRB |-> ell + i + j]],
    B_2 |-> [i \in 1..NumTimes |-> [j \in 1..DimRB |-> m * i + j]],
    fitparams_amp |-> [j \in 1..DimRB |-> <<ell + j, 2 * (m + j)>>],
    fitparams_phase |-> [j \in 1..DimRB |-> <<m + j, 2 * ell>>],
    norms |-> (ell = MaxEll),
    fitparams_norm |-> <<1, 2>> ]

(***************************************************************************)
(* EvaluateSingleModeSurrogate                                             *)
(***************************************************************************)
Column(B, j) == [i \in 1..Len(B) |-> B[i][j]]

\* a faulty __init__ that raises for no surrogate_mode_type: an evaluator of
\* an unknown type is constructed, without splines
SingleModeInitUnchecked(ell, m, smt, amap) ==
  LET self == LoadSingleMode(ell, m, smt, amap)
  IN IF self.surrogate_mode_type = "waveform_basis"
     THEN [err |-> "none",
           self |-> self @@
             [reB_spline_params |-> [j \in 1..self.dim_rb |-> Splrep(self.times, Re(Column(self.B, j)))],
              imB_spline_params |-> [j \in 1..self.dim_rb |-> Splrep(self.times, Im(Column(self.B, j)))],
              surrogate_units |-> "dimensionless"]]
     ELSE IF self.surrogate_mode_type = "amp_phase_basis"
     THEN [err |-> "none",
           self |-> self @@
             [B1_spline_params |-> [j \in 1..Len(self.B_1[1]) |-> Splrep(self.times, Column(self.B_1, j))],
              B2_spline_params |-> [j \in 1..Len(self.B_2[1]) |-> Splrep(self.times, Column(self.B_2, j))],
              surrogate_units |-> "dimensionless"]]
     ELSE [err |-> "none", self |-> self @@ [surrogate_units |-> "dimensionless"]]

\* __init__: the loader's data, then the splines of the basis columns; an
\* unknown surrogate_mode_type raises ValueError
SingleModeInit(ell, m, smt, amap) ==
  LET self == LoadSingleMode(ell, m, smt, amap)
  IN IF self.surrogate_mode_type = "waveform_basis"
     THEN [err |-> "none",
           self |-> self @@
             [reB_spline_params |-> [j \in 1..self.dim_rb |-> Splrep(self.times, Re(Column(self.B, j)))],
              imB_spline_params |-> [j \in 1..self.dim_rb |-> Splrep(self.times, Im(Column(self.B, j)))],
              surrogate_units |-> "dimensionless"]]
     ELSE IF self.surrogate_mode_type = "amp_phase_basis"
     THEN [err |-> "none",
           self |-> self @@
             [B1_spline_params |-> [j \in 1..Len(self.B_1[1]) |-> Splrep(self.times, Column(self.B_1, j))],
              B2_spline_params |-> [j \in 1..Len(self.B_2[1]) |-> Splrep(self.times, Column(self.B_2, j))],
              surrogate_units |-> "dimensionless"]]
     ELSE [err |-> "ValueError"]

\* a faulty _affine_mapper_checker whose minus1_to_1 map is not shifted by -1
AffineMapperCheckerUnshifted(self, x) ==
  LET x_min == self.fit_interval[1]
      x_max == self.fit_interval[2]
      warned == (x < x_min \/ x > x_max)
  IN IF self.affine_map = "minus1_to_1"
     THEN [err |-> "none", warned |-> warned, x_0 |-> <<2 * (x - x_min), x_max - x_min>>]
     ELSE IF self.affine_map = "zero_to_1"
     THEN [err |-> "none", warned |-> warned, x_0 |-> <<x - x_min, x_max - x_min>>]
     ELSE IF self.affine_map = "none"
     THEN [err |-> "none", warned |-> warned, x_0 |-> <<x, 1>>]
     ELSE [err |-> "ValueError", warned |-> warned]

\* _affine_mapper_checker: prints a warning when x is outside fit_interval
\* (warned), then maps x; an unknown affine_map raises ValueError
AffineMapperChecker(self, x) ==
  LET x_min == self.fit_interval[1]
      x_max == self.fit_interval[2]
      warned == (x < x_min \/ x > x_max)
  IN IF self.affine_map = "minus1_to_1"
     THEN [err |-> "none", warned |-> warned,
           x_0 |-> <<2 * (x - x_min) - (x_max - x_min), x_max - x_min>>]
     ELSE IF self.affine_map = "zero_to_1"
     THEN [err |-> "none", warned |-> warned, x_0 |-> <<x - x_min, x_max - x_min>>]
     ELSE IF self.affine_map = "none"
     THEN [err |-> "none", warned |-> warned, x_0 |-> <<x, 1>>]
     ELSE [err |-> "ValueError", warned |-> warned]

\* _norm_eval
NormEval(self, x_0) ==
  IF ~self.norms THEN 1 ELSE FitFunc(self.fitparams_norm, x_0)
\* _amp_eval
AmpEval(self, x_0) ==
  [jj \in 1..Len(self.fitparams_amp) |-> FitFunc(self.fitparams_amp[jj], x_0)]
\* _phase_eval
PhaseEval(self, x_0) ==
  [jj \in 1..Len(self.fitparams_phase) |-> FitFunc(self.fitparams_phase[jj], x_0)]

\* resample_B
ResampleB(self, samples) ==
  LET re == [jj \in 1..self.dim_rb |-> Splev(samples, self.reB_spline_params[jj])]
      im == [jj \in 1..self.dim_rb |-> Splev(samples, self.imB_spline_params[jj])]
  IN [i \in 1..Len(samples) |-> [jj \in 1..self.dim_rb |-> <<re[jj][i], im[jj][i]>>]]

\* the basis recombination of _h_sur: the fit evaluations recombined with
\* the basis (resampled at samples when given), times the norm
HSurRecombine(self, amp_eval, phase_eval, nrm_eval, samples) ==
  LET surrogate ==
        IF self.surrogate_mode_type = "waveform_basis"
        THEN LET h_EIM == [j \in 1..Len(amp_eval) |-> CScale(amp_eval[j], Cis(phase_eval[j]))]
             IN IF IsNone(samples) THEN CDot(self.B, h_EIM)
                ELSE CDot(ResampleB(self, Val(samples)), h_EIM)
        ELSE
          LET S1 == [jj \in 1..Len(self.B_1[1]) |-> Splev(Val(samples), self.B1_spline_params[jj])]
              S2 == [jj \in 1..Len(self.B_2[1]) |-> Splev(Val(samples), self.B2_spline_params[jj])]
              T1 == [i \in 1..Len(Val(samples)) |-> [jj \in 1..Len(S1) |-> S1[jj][i]]]
              T2 == [i \in 1..Len(Val(samples)) |-> [jj \in 1..Len(S2) |-> S2[jj][i]]]
              sur_A == IF IsNone(samples) THEN RDot(self.B_1, amp_eval) ELSE RDot(T1, amp_eval)
              sur_P == IF IsNone(samples) THEN RDot(self.B_2, phase_eval) ELSE RDot(T2, phase_eval)
          IN [i \in 1..Len(sur_A) |-> CScale(sur_A[i], Cis(sur_P[i]))]
  IN [i \in 1..Len(surrogate) |-> CScale(nrm_eval, surrogate[i])]

\* _h_sur once x is mapped (am): the fits are evaluated at x_0 and recombined
HSurMapped(self, am, samples) ==
  IF am.err # "none" THEN [err |-> am.err, warned |-> am.warned]
  ELSE IF self.surrogate_mode_type \notin {"waveform_basis", "amp_phase_basis"}
  THEN [err |-> "ValueError", warned |-> am.warned]
  ELSE LET surrogate == HSurRecombine(self, AmpEval(self, am.x_0), PhaseEval(self, am.x_0),
                                      NormEval(self, am.x_0), samples)
       IN [err |-> "none", warned |-> am.warned, hp |-> Re(surrogate), hc |-> Im(surrogate)]

\* _h_sur(x, samples): samples is None or Some(dimensionless times)
HSur(self, x, samples) == HSurMapped(self, AffineMapperChecker(self, x), samples)

\* phi_merger and adjust_merger_phase
AdjustMergerPhase(h, phiref) ==
  LET phimerger == Quadrant(h[ArgmaxAmp(h)])
      phiadj == phiref - phimerger
  IN ModifyPhase(h, phiadj)

\* find_instant_freq(hp, hc, t, f_low) with f_low given: TRUE when the
\* Warning is raised
FindInstantFreqRaises(hp, hc, t, f_low) ==
  LET f_instant == GwFindInstantFreq(hp, hc, t)
  IN f_instant[1] > f_low * f_instant[2]

\* the end of __call__: the amplitude is restored, the starting frequency is
\* checked against f_low (which may raise Warning), and (t, hp, hc) returned
SingleModeCallReturn(warned, t, hp, hc, f_low) ==
  IF ~IsNone(f_low) /\ FindInstantFreqRaises(hp, hc, t, Val(f_low))
  THEN [err |-> "Warning", warned |-> warned]
  ELSE [err |-> "none", warned |-> warned, t |-> t, hp |-> hp, hc |-> hc]

\* __call__ once _h_sur has answered (hs): the phase is adjusted when phi_ref
\* is given
SingleModeCallScaled(hs, amp0, t, phi_ref, f_low) ==
  IF hs.err # "none" THEN [err |-> hs.err, warned |-> hs.warned]
  ELSE LET h == IF ~IsNone(phi_ref)
                THEN AdjustMergerPhase(Complex(hs.hp, hs.hc), Val(phi_ref))
                ELSE Complex(hs.hp, hs.hc)
       IN SingleModeCallReturn(hs.warned, t, VScale(amp0, Re(h)), VScale(amp0, Im(h)), f_low)

\* a faulty __call__ that rejects unsupported samples_units only after the
\* parameter is mapped
SingleModeCallLateCheck(self, q, M, dist, phi_ref, f_low, samples, samples_units) ==
  IF self.surrogate_units # "dimensionless" THEN [err |-> "ValueError", warned |-> FALSE]
  ELSE IF samples_units # "dimensionless" /\ samples_units # "mks"
  THEN [err |-> "ValueError",
        warned |-> AffineMapperChecker(self, GetSurrParams(q)).warned]
  ELSE
    LET x == GetSurrParams(q)
        physical == ~IsNone(M) /\ ~IsNone(dist)
        amp0 == IF physical THEN (Val(M) * AmpUnit) \div Val(dist) ELSE 1
        t_scale == IF physical THEN Msuninsec * Val(M) ELSE 1
        t0 == IF ~IsNone(samples) THEN Val(samples) ELSE self.times
        t == IF samples_units = "dimensionless" THEN VScale(t_scale, t0) ELSE t0
        samples1 == IF ~IsNone(samples) /\ samples_units = "mks"
                    THEN Some([i \in 1..Len(Val(samples)) |-> Val(samples)[i] \div t_scale])
                    ELSE samples
    IN SingleModeCallScaled(HSur(self, x, samples1), amp0, t, phi_ref, f_low)

\* __call__(q, M, dist, phi_ref, f_low, samples, samples_units): M, dist,
\* phi_ref, f_low and samples are None or Some(value)
SingleModeCall(self, q, M, dist, phi_ref, f_low, samples, samples_units) ==
  IF self.surrogate_units # "dimensionless" THEN [err |-> "ValueError", warned |-> FALSE]
  ELSE IF samples_units # "dimensionless" /\ samples_units # "mks"
  THEN [err |-> "ValueError", warned |-> FALSE]
  ELSE
    LET x == GetSurrParams(q)
        physical == ~IsNone(M) /\ ~IsNone(dist)
        amp0 == IF physical THEN (Val(M) * AmpUnit) \div Val(dist) ELSE 1
        t_scale == IF physical THEN Msuninsec * Val(M) ELSE 1
        t0 == IF ~IsNone(samples) THEN Val(samples) ELSE self.times
        t == IF samples_units = "dimensionless" THEN VScale(t_scale, t0) ELSE t0
        samples1 == IF ~IsNone(samples) /\ samples_units = "mks"
                    THEN Some([i \in 1..Len(Val(samples)) |-> Val(samples)[i] \div t_scale])
                    ELSE samples
    IN SingleModeCallScaled(HSur(self, x, samples1), amp0, t, phi_ref, f_low)

(***************************************************************************)
(* EvaluateSurrogate.  self is [single_modes, keys]: the dictionary of     *)
(* single-mode evaluators and the order in which the dictionary lists its  *)
(* keys; every mode shares the time grid of time_all_modes.                *)
(***************************************************************************)
RECURSIVE ExtendLoopSkipping(_, _, _)
\* a faulty loop of _extend_mode_list_minus_m that passes over a mode with
\* m < 0 instead of raising
ExtendLoopSkipping(positive_modes, i, mode_list) ==
  IF i > Len(positive_modes) THEN [err |-> "none", modes |-> mode_list]
  ELSE LET ell == positive_modes[i][1]
           m == positive_modes[i][2]
       IN ExtendLoopSkipping(positive_modes, i + 1,
                             IF m > 0 THEN Append(mode_list, <<ell, -m>>) ELSE mode_list)

RECURSIVE ExtendLoop(_, _, _)
\* the loop of _extend_mode_list_minus_m over positive_modes from index i
ExtendLoop(positive_modes, i, mode_list) ==
  IF i > Len(positive_modes) THEN [err |-> "none", modes |-> mode_list]
  ELSE LET ell == positive_modes[i][1]
           m == positive_modes[i][2]
           appended == IF m > 0 THEN Append(mode_list, <<ell, -m>>) ELSE mode_list
       IN IF m < 0 THEN [err |-> "ValueError", modes |-> appended]
          ELSE ExtendLoop(positive_modes, i + 1, appended)

\* _extend_mode_list_minus_m
ExtendModeListMinusM(mode_list) == ExtendLoop(mode_list, 1, mode_list)

\* all_model_modes
AllModelModes(self, minus_m) ==
  LET model_modes == self.keys
  IN IF minus_m THEN ExtendModeListMinusM(model_modes)
     ELSE [err |-> "none", modes |-> model_modes]

\* a faulty all_model_modes that hands the model's own list of modes to
\* _extend_mode_list_minus_m, which appends to it in place (and has appended
\* what it has when it raises)
SelfAfterAllModelModesAliased(self, minus_m) ==
  IF minus_m THEN [self EXCEPT !.keys = ExtendModeListMinusM(self.keys).modes]
  ELSE self

\* the model after all_model_modes(minus_m): model_modes is a new list built
\* from the keys of single_modes, so the in-place extension appends to that
\* list and no attribute of self is assigned
SelfAfterAllModelModes(self, minus_m) == self

\* the model after generate_mode_eval_list(ell, m, minus_m): the list that is
\* extended in place is the one all_model_modes() returned or a new one
SelfAfterGenerateModeEvalList(self, ell, m, minus_m) ==
  IF ell.k = "none" /\ m.k = "none" THEN SelfAfterAllModelModes(self, FALSE)
  ELSE self

RECURSIVE RangeModesShort(_, _, _)
\* a faulty double loop of generate_mode_eval_list whose inner loop stops
\* before emm = L
RangeModesShort(L, emm, LMax) ==
  IF L > LMax THEN <<>>
  ELSE IF emm > L - 1 THEN RangeModesShort(L + 1, 0, LMax)
  ELSE <<<<L, emm>>>> \o RangeModesShort(L, emm + 1, LMax)

RECURSIVE RangeModes(_, _, _)
\* the double loop of generate_mode_eval_list from (L, emm) up to LMax
RangeModes(L, emm, LMax) ==
  IF L > LMax THEN <<>>
  ELSE IF emm > L THEN RangeModes(L + 1, 0, LMax)
  ELSE <<<<L, emm>>>> \o RangeModes(L, emm + 1, LMax)

\* [(x, y) for x in ell for y in m]
PairModes(ell, m) ==
  [k \in 1..(Len(ell) * Len(m)) |->
     <<ell[((k - 1) \div Len(m)) + 1], m[((k - 1) % Len(m)) + 1]>>]

\* generate_mode_eval_list(ell, m, minus_m): ell is [k |-> "none", v |-> <<>>],
\* [k |-> "int", v |-> <<LMax>>] or [k |-> "list", v |-> <<...>>], m is
\* [k |-> "none", v |-> <<>>] or [k |-> "list", v |-> <<...>>]
GenerateModeEvalList(self, ell, m, minus_m) ==
  LET typeError == \/ (ell.k = "none" /\ m.k = "list")
                   \/ (ell.k = "list" /\ m.k = "none")
                   \/ (ell.k = "int" /\ m.k = "list")
      modes_to_eval ==
        IF ell.k = "none" /\ m.k = "none" THEN AllModelModes(self, FALSE).modes
        ELSE IF m.k = "none" THEN RangeModes(2, 0, ell.v[1])
        ELSE PairModes(ell.v, m.v)
  IN IF typeError THEN [err |-> "TypeError", modes |-> <<>>]
     ELSE IF minus_m THEN ExtendModeListMinusM(modes_to_eval)
     ELSE [err |-> "none", modes |-> modes_to_eval]

ModeLess(a, b) == a[1] < b[1] \/ (a[1] = b[1] /\ a[2] < b[2])

RECURSIVE InsertSorted(_, _)
\* x goes after every entry that is not greater than it (a stable sort)
InsertSorted(sorted, x) ==
  IF sorted = <<>> THEN <<x>>
  ELSE IF ModeLess(x, sorted[1]) THEN <<x>> \o sorted
  ELSE <<sorted[1]>> \o InsertSorted(Tail(sorted), x)

RECURSIVE SortFrom(_, _, _)
\* the entries from index i on are inserted one by one (the list sorted so
\* far is a value bound by the set {..}, computed once per step)
SortFrom(mode_list, i, sorted) ==
  IF i > Len(mode_list) THEN sorted
  ELSE CHOOSE r \in { SortFrom(mode_list, i + 1, next) :
                        next \in {InsertSorted(sorted, mode_list[i])} } : TRUE

\* sort_mode_list: sorted(mode_list, key=itemgetter(0,1))
SortModeList(mode_list) == SortFrom(mode_list, 1, <<>>)

\* time_all_modes(): the time grid of the mode loaded last
TimeAllModes(self) == self.single_modes[self.keys[Len(self.keys)]].times

\* _allocate_output_array(samples, num_modes): two rows-by-num_modes arrays
\* of zeros; with num_modes = 1 both are reshaped to one dimension, and
\* hc_full is then a view of hp_full
AllocateOutputArray(self, samples, num_modes) ==
  LET rows == IF ~IsNone(samples) THEN Len(Val(samples)) ELSE Len(TimeAllModes(self))
  IN IF num_modes = 1
     THEN [ndim |-> 1, hp_full |-> Zeros(rows), hc_full |-> Zeros(rows), view |-> TRUE]
     ELSE [ndim |-> 2, hp_full |-> [i \in 1..rows |-> Zeros(num_modes)],
           hc_full |-> [i \in 1..rows |-> Zeros(num_modes)], view |-> FALSE]

\* a faulty _generate_minus_m_mode that does not conjugate
GenerateMinusMModeNoConjugate(hp_mode, hc_mode, ell, m) ==
  IF m <= 0 THEN [err |-> "ValueError"]
  ELSE [err |-> "none",
        hp |-> VScale(PowMinus1(ell), hp_mode),
        hc |-> VScale(PowMinus1(ell), hc_mode)]

\* _generate_minus_m_mode(hp_mode, hc_mode, ell, m)
GenerateMinusMMode(hp_mode, hc_mode, ell, m) ==
  IF m <= 0 THEN [err |-> "ValueError"]
  ELSE [err |-> "none",
        hp |-> VScale(PowMinus1(ell), hp_mode),
        hc |-> VScale(-PowMinus1(ell), hc_mode)]

\* evaluate_on_sphere
EvaluateOnSphere(ell, m, theta, phi, hp_mode, hc_mode) ==
  IF ~IsNone(theta)
  THEN LET phi1 == IF IsNone(phi) THEN 0 ELSE Val(phi)
           sYlm_value == sYlm(ell, m, Val(theta), phi1)
           h == [i \in 1..Len(hp_mode) |-> CMul(sYlm_value, <<hp_mode[i], hc_mode[i]>>)]
       IN [hp |-> Re(h), hc |-> Im(h)]
  ELSE [hp |-> hp_mode, hc |-> hc_mode]

\* a faulty evaluate_single_mode that does not refuse m < 0
EvaluateSingleModeUnguarded(self, a, ell, m) ==
  IF <<ell, m>> \notin DOMAIN self.single_modes
  THEN [err |-> "KeyError", ncalls |-> 0, warned |-> FALSE]
  ELSE SingleModeCall(self.single_modes[<<ell, m>>], a.q, a.M, a.dist,
                      a.phi_ref, a.f_low, a.samples, a.samples_units)
         @@ [ncalls |-> 1]

\* evaluate_single_mode: a holds q, M, dist, phi_ref, f_low, samples and
\* samples_units; ncalls counts the single-mode evaluators called
EvaluateSingleMode(self, a, ell, m) ==
  IF m >= 0
  THEN IF <<ell, m>> \notin DOMAIN self.single_modes
       THEN [err |-> "KeyError", ncalls |-> 0, warned |-> FALSE]
       ELSE SingleModeCall(self.single_modes[<<ell, m>>], a.q, a.M, a.dist,
                           a.phi_ref, a.f_low, a.samples, a.samples_units)
              @@ [ncalls |-> 1]
  ELSE [err |-> "ValueError", ncalls |-> 0, warned |-> FALSE]

\* evaluate_single_mode_minus, once the m > 0 mode is evaluated (r): its
\* exception propagates, else _generate_minus_m_mode replaces hp and hc
MinusFromPlus(r, ell, m) ==
  IF r.err # "none" THEN r
  ELSE LET g == GenerateMinusMMode(r.hp, r.hc, ell, m)
       IN IF g.err # "none"
          THEN [err |-> g.err, ncalls |-> r.ncalls, warned |-> r.warned]
          ELSE [r EXCEPT !.hp = g.hp, !.hc = g.hc]

\* evaluate_single_mode_minus
EvaluateSingleModeMinus(self, a, ell, m) ==
  IF m < 0
  THEN MinusFromPlus(EvaluateSingleMode(self, a, ell, -m), ell, -m)
  ELSE [err |-> "ValueError", ncalls |-> 0, warned |-> FALSE]

\* hp_full[:,ii] = hp_mode[:]
SetColumn(full, ii, mode) ==
  [i \in 1..Len(full) |-> [full[i] EXCEPT ![ii] = mode[i]]]

\* one pass of the loop of __call__ for an available mode (ell, m) at index
\* ii, once the mode is evaluated (r): acc holds hp_full, hc_full, their ndim,
\* t_mode (None while unbound), ncalls, warned and err, the exception that
\* ends the loop
ModeStepEvaluated(r, ell, m, theta, phi, mode_sum, ii, acc) ==
  LET ncalls == acc.ncalls + r.ncalls
      warned == acc.warned \/ r.warned
  IN IF r.err # "none"
     THEN [acc EXCEPT !.ncalls = ncalls, !.warned = warned, !.err = r.err]
     ELSE
       LET s == EvaluateOnSphere(ell, m, theta, phi, r.hp, r.hc)
       IN IF mode_sum
          THEN [acc EXCEPT !.hp_full = VAdd(acc.hp_full, s.hp),
                           !.hc_full = VAdd(acc.hc_full, s.hc),
                           !.t_mode = Some(r.t),
                           !.ncalls = ncalls, !.warned = warned]
          ELSE IF acc.ndim = 1
          THEN [acc EXCEPT !.ncalls = ncalls, !.warned = warned, !.err = "IndexError"]
          ELSE [acc EXCEPT !.hp_full = SetColumn(acc.hp_full, ii, s.hp),
                           !.hc_full = SetColumn(acc.hc_full, ii, s.hc),
                           !.t_mode = Some(r.t),
                           !.ncalls = ncalls, !.warned = warned]

\* one pass of the loop of __call__, for the mode at index ii: a mode that is
\* not available is passed over
ModeStep(self, a, theta, phi, mode_sum, modes_to_evaluate, avail_modes, ii, acc) ==
  LET ell == modes_to_evaluate[ii][1]
      m == modes_to_evaluate[ii][2]
  IN IF \E k \in 1..Len(avail_modes) : avail_modes[k] = <<ell, m>>
     THEN ModeStepEvaluated(IF m >= 0 THEN EvaluateSingleMode(self, a, ell, m)
                            ELSE EvaluateSingleModeMinus(self, a, ell, m),
                            ell, m, theta, phi, mode_sum, ii, acc)
     ELSE acc

RECURSIVE ModeLoop(_, _, _, _, _, _, _, _, _)
\* the loop of __call__ over modes_to_evaluate from index ii, until the list
\* ends or a pass raises (each pass's outcome is a value bound by the set
\* {..}, computed once)
ModeLoop(self, a, theta, phi, mode_sum, modes_to_evaluate, avail_modes, ii, acc) ==
  IF ii > Len(modes_to_evaluate) \/ acc.err # "none" THEN acc
  ELSE CHOOSE r \in
         { ModeLoop(self, a, theta, phi, mode_sum, modes_to_evaluate, avail_modes, ii + 1, next) :
             next \in {ModeStep(self, a, theta, phi, mode_sum, modes_to_evaluate, avail_modes, ii, acc)} } :
         TRUE

\* the end of __call__: done is the outcome of the loop.  A loop that
\* evaluated no mode leaves t_mode unbound
MultiCallReturn(a, modes_to_evaluate, done) ==
  IF done.err # "none"
  THEN [err |-> done.err, resolved |-> TRUE, ncalls |-> done.ncalls, warned |-> done.warned]
  ELSE IF IsNone(done.t_mode)
  THEN [err |-> "UnboundLocalError", resolved |-> TRUE, ncalls |-> done.ncalls,
        warned |-> done.warned]
  ELSE IF a.mode_sum
  THEN [err |-> "none", resolved |-> TRUE, ncalls |-> done.ncalls, warned |-> done.warned,
        t |-> Val(done.t_mode), hp |-> done.hp_full, hc |-> done.hc_full]
  ELSE [err |-> "none", resolved |-> TRUE, ncalls |-> done.ncalls, warned |-> done.warned,
        modes |-> modes_to_evaluate,
        t |-> Val(done.t_mode), hp |-> done.hp_full, hc |-> done.hc_full]

\* __call__ from avail_modes on: the output arrays are allocated and the
\* modes evaluated in turn
MultiCallLoop(self, a, modes_to_evaluate, avail) ==
  IF avail.err # "none"
  THEN [err |-> avail.err, resolved |-> TRUE, ncalls |-> 0, warned |-> FALSE]
  ELSE
    LET alloc == IF a.mode_sum THEN AllocateOutputArray(self, a.samples, 1)
                 ELSE AllocateOutputArray(self, a.samples, Len(modes_to_evaluate))
    IN MultiCallReturn(a, modes_to_evaluate,
         ModeLoop(self, a, a.theta, a.phi, a.mode_sum, modes_to_evaluate, avail.modes, 1,
                  [hp_full |-> alloc.hp_full, hc_full |-> alloc.hc_full, ndim |-> alloc.ndim,
                   t_mode |-> None, ncalls |-> 0, warned |-> FALSE, err |-> "none"]))

\* __call__ once generate_mode_eval_list has answered (gen): the list is
\* sorted when mode_sum is false, and avail_modes = all_model_modes(True)
MultiCallModes(self, a, gen) ==
  IF gen.err # "none"
  THEN [err |-> gen.err, resolved |-> FALSE, ncalls |-> 0, warned |-> FALSE]
  ELSE MultiCallLoop(self, a,
                     IF ~a.mode_sum THEN SortModeList(gen.modes) ELSE gen.modes,
                     AllModelModes(self, TRUE))

\* EvaluateSurrogate.__call__ from the resolution of the mode list on: a
\* holds q, M, dist, phi_ref, f_low, samples, samples_units, theta, phi, ell,
\* m, mode_sum and fake_neg_modes.  The result tells whether the mode list was
\* resolved and how many single-mode evaluators were called (ncalls), and
\* holds err or what is returned
MultiCallResolved(self, a) ==
  MultiCallModes(self, a, GenerateModeEvalList(self, a.ell, a.m, a.fake_neg_modes))

\* a faulty __call__ that passes phi_ref on to the single-mode evaluators
MultiCallPhiRefIgnored(self, a) == MultiCallResolved(self, a)

\* EvaluateSurrogate.__call__: phi_ref is refused before anything else
MultiCall(self, a) ==
  IF ~IsNone(a.phi_ref)
  THEN [err |-> "ValueError", resolved |-> FALSE, ncalls |-> 0, warned |-> FALSE]
  ELSE MultiCallResolved(self, a)

\* the model after __call__: past the phi_ref check the mode list is
\* generated, and when that succeeds all_model_modes(True) is called; the
\* single-mode evaluators assign no attribute
SelfAfterMultiCall(self, a) ==
  IF ~IsNone(a.phi_ref) THEN self
  ELSE IF GenerateModeEvalList(self, a.ell, a.m, a.fake_neg_modes).err # "none"
  THEN SelfAfterGenerateModeEvalList(self, a.ell, a.m, a.fake_neg_modes)
  ELSE SelfAfterAllModelModes(
         SelfAfterGenerateModeEvalList(self, a.ell, a.m, a.fake_neg_modes), TRUE)

\* EvaluateSurrogate.__init__: one single-mode evaluator per mode the loader
\* finds (keys, in the dictionary's order); no mode at all raises IOError
MultiInit(keys, smt, amap) ==
  LET inits == [k \in 1..Len(keys) |-> SingleModeInit(keys[k][1], keys[k][2], smt, amap)]
  IN IF \E k \in 1..Len(keys) : inits[k].err # "none"
     THEN [err |-> "ValueError"]
     ELSE IF Len(keys) = 0 THEN [err |-> "IOError"]
     ELSE [err |-> "none",
           self |-> [keys |-> keys,
                     single_modes |-> [key \in {keys[k] : k \in 1..Len(keys)} |->
                        SingleModeInit(key[1], key[2], smt, amap).self]]]

\* numpy's min() and max() of a non-empty array
SeqMin(v) == CHOOSE x \in {v[i] : i \in 1..Len(v)} : \A i \in 1..Len(v) : x <= v[i]
SeqMax(v) == CHOOSE x \in {v[i] : i \in 1..Len(v)} : \A i \in 1..Len(v) : x >= v[i]

\* the index of the column a dictionary keyed by mode keeps for ell_m: the
\* last one the loop of h_sphere_builder stored under that key
LastIndexOf(modes_to_evaluate, ell_m) ==
  CHOOSE ii \in 1..Len(modes_to_evaluate) :
    /\ modes_to_evaluate[ii] = ell_m
    /\ \A kk \in (ii + 1)..Len(modes_to_evaluate) : modes_to_evaluate[kk] # ell_m

\* h_sphere_builder once self(...) has answered (r): the closure h_sphere is
\* the record of what it captures (self apart): modes_to_evaluate, the splines
\* of the columns by mode, t_min and t_max
HSphereBuilderFrom(r) ==
  IF r.err # "none" THEN [err |-> r.err]
  ELSE [err |-> "none",
        h_sphere |->
          [modes_to_evaluate |-> r.modes,
           hp_modes_spline |->
             [ell_m \in {r.modes[ii] : ii \in 1..Len(r.modes)} |->
                Splrep(r.t, Column(r.hp, LastIndexOf(r.modes, ell_m)))],
           hc_modes_spline |->
             [ell_m \in {r.modes[ii] : ii \in 1..Len(r.modes)} |->
                Splrep(r.t, Column(r.hc, LastIndexOf(r.modes, ell_m)))],
           t_min |-> SeqMin(r.t),
           t_max |-> SeqMax(r.t)],
        modes |-> r.modes,
        window |-> <<SeqMin(r.t), SeqMax(r.t)>>]

\* h_sphere_builder(q, M, dist, ell, m)
HSphereBuilder(self, q, M, dist, ell, m) ==
  HSphereBuilderFrom(
    MultiCall(self, [q |-> q, M |-> M, dist |-> dist, theta |-> None, phi |-> None,
                     phi_ref |-> None, f_low |-> None, samples |-> None,
                     samples_units |-> "dimensionless", ell |-> ell, m |-> m,
                     mode_sum |-> FALSE, fake_neg_modes |-> TRUE]))

\* the model after h_sphere_builder(q, M, dist, ell, m): that of its call of
\* self(...)
SelfAfterHSphereBuilder(self, q, M, dist, ell, m) ==
  SelfAfterMultiCall(self, [phi_ref |-> None, ell |-> ell, m |-> m, fake_neg_modes |-> TRUE])

\* the loop of h_sphere: mode jj evaluated at times off its splines and
\* rotated about the z axis when z_rot is given
HSphereModes(c, times, z_rot) ==
  [jj \in 1..Len(c.modes_to_evaluate) |->
     LET ell_m == c.modes_to_evaluate[jj]
         h_modes_eval == Complex(Splev(times, c.hp_modes_spline[ell_m]),
                                 Splev(times, c.hc_modes_spline[ell_m]))
     IN IF ~IsNone(z_rot)
        THEN [i \in 1..Len(times) |-> CMul(h_modes_eval[i], Cis(Val(z_rot) * ell_m[2]))]
        ELSE h_modes_eval]

\* the end of h_sphere, the modes being evaluated (evals): their sum on the
\* sphere when theta and phi are given, else a column per mode in the arrays
\* of _allocate_output_array (ndim 1 for one mode)
HSphereOutput(c, evals, times, theta, phi, ndim) ==
  IF ~IsNone(theta) /\ ~IsNone(phi)
  THEN LET h == [i \in 1..Len(times) |->
                   CSum([jj \in 1..Len(evals) |->
                           CMul(sYlm(c.modes_to_evaluate[jj][1], c.modes_to_evaluate[jj][2],
                                     Val(theta), Val(phi)),
                                evals[jj][i])])]
       IN [err |-> "none", hp |-> Re(h), hc |-> Im(h)]
  ELSE IF ndim = 1 /\ Len(evals) > 0 THEN [err |-> "IndexError"]
  ELSE [err |-> "none",
        hp |-> [i \in 1..Len(times) |-> [jj \in 1..Len(evals) |-> evals[jj][i][1]]],
        hc |-> [i \in 1..Len(times) |-> [jj \in 1..Len(evals) |-> evals[jj][i][2]]]]

\* a faulty h_sphere whose time window excludes its two end points
HSphereOpenWindow(self, c, times, theta, phi, z_rot, psi_rot) ==
  IF SeqMin(times) <= c.t_min \/ SeqMax(times) >= c.t_max THEN [err |-> "ValueError"]
  ELSE IF ~IsNone(psi_rot) THEN [err |-> "ValueError"]
  ELSE HSphereOutput(c, HSphereModes(c, times, z_rot), times, theta, phi,
                     AllocateOutputArray(self, Some(times), Len(c.modes_to_evaluate)).ndim)

\* the closure h_sphere(times, theta, phi, z_rot, psi_rot) of the model self
HSphere(self, c, times, theta, phi, z_rot, psi_rot) ==
  IF SeqMin(times) < c.t_min \/ SeqMax(times) > c.t_max THEN [err |-> "ValueError"]
  ELSE IF ~IsNone(psi_rot) THEN [err |-> "ValueError"]
  ELSE HSphereOutput(c, HSphereModes(c, times, z_rot), times, theta, phi,
                     AllocateOutputArray(self, Some(times), Len(c.modes_to_evaluate)).ndim)

(***************************************************************************)
(* The inputs drawn by the operations                                      *)
(***************************************************************************)
\* what the loader finds: the modes, in the dictionary's order, and the tags
Configs ==
  { [keys |-> <<<<2, 2>>>>, smt |-> "waveform_basis", amap |-> "minus1_to_1"],
    [keys |-> <<<<2, 2>>, <<2, 1>>>>, smt |-> "amp_phase_basis", amap |-> "zero_to_1"],
    [keys |-> <<<<MaxEll, MaxEll>>, <<2, 0>>, <<2, 2>>>>, smt |-> "waveform_basis", amap |-> "zero_to_1"],
    [keys |-> <<<<2, 1>>, <<MaxEll, MaxEll>>>>, smt |-> "amp_phase_basis", amap |-> "none"],
    [keys |-> <<<<2, 2>>, <<2, 1>>>>, smt |-> "waveform_basis", amap |-> "bogus"],
    [keys |-> <<<<2, 2>>>>, smt |-> "bogus", amap |-> "minus1_to_1"],
    [keys |-> <<<<2, 2>>, <<2, 1>>>>, smt |-> "bogus", amap |-> "bogus"],
    [keys |-> <<>>, smt |-> "waveform_basis", amap |-> "minus1_to_1"] }

\* (M, dist)
Phys == { <<None, None>>, <<Some(2), Some(1)>>, <<Some(1), Some(2)>>, <<Some(2), None>> }
\* the time scale __call__ computes from (M, dist)
TScaleOf(ph) == IF ~IsNone(ph[1]) /\ ~IsNone(ph[2]) THEN Msuninsec * Val(ph[1]) ELSE 1
\* dimensionless samples on the native grid: its last two points
GridSamples == <<NumTimes - 2, NumTimes - 1>>
\* (samples, samples_units): samples given in mks are the grid samples in
\* seconds
SamplesOf(ph) ==
  { <<None, "dimensionless">>, <<None, "mks">>, <<None, "furlongs">>,
    <<Some(GridSamples), "dimensionless">>,
    <<Some(VScale(TScaleOf(ph), GridSamples)), "mks">>,
    <<Some(GridSamples), "furlongs">> }

\* the arguments q, M, dist, phi_ref, f_low, samples, samples_units
EvalArgs(qs, phys, phi_refs, f_lows) ==
  UNION { { [q |-> q, M |-> ph[1], dist |-> ph[2], phi_ref |-> pr, f_low |-> fl,
             samples |-> su[1], samples_units |-> su[2]] :
               q \in qs, pr \in phi_refs, fl \in f_lows, su \in SamplesOf(ph) } :
          ph \in phys }

SingleArgs == EvalArgs(0..MaxQ, Phys, {None, Some(0), Some(1)}, {None, Some(0), Some(3)})

\* (theta, phi)
Angles == { <<None, None>>, <<Some(0), None>>, <<Some(1), Some(1)>> }

\* (ell, m) as the caller gives them
ModeRequests ==
  { <<[k |-> "none", v |-> <<>>], [k |-> "none", v |-> <<>>]>>,
    <<[k |-> "int", v |-> <<1>>], [k |-> "none", v |-> <<>>]>>,
    <<[k |-> "int", v |-> <<2>>], [k |-> "none", v |-> <<>>]>>,
    <<[k |-> "int", v |-> <<MaxEll>>], [k |-> "none", v |-> <<>>]>>,
    <<[k |-> "list", v |-> <<2>>], [k |-> "list", v |-> <<2>>]>>,
    <<[k |-> "list", v |-> <<2>>], [k |-> "list", v |-> <<-2>>]>>,
    <<[k |-> "list", v |-> <<2>>], [k |-> "list", v |-> <<0>>]>>,
    <<[k |-> "list", v |-> <<MaxEll>>], [k |-> "list", v |-> <<1>>]>>,
    <<[k |-> "list", v |-> <<2, 2>>], [k |-> "list", v |-> <<2, 1>>]>>,
    <<[k |-> "list", v |-> <<2, MaxEll>>], [k |-> "list", v |-> <<2, MaxEll>>]>>,
    <<[k |-> "list", v |-> <<MaxEll, 2>>], [k |-> "list", v |-> <<-MaxEll, 2>>]>>,
    <<[k |-> "list", v |-> <<MaxEll, MaxEll>>], [k |-> "list", v |-> <<1, 2>>]>>,
    <<[k |-> "list", v |-> <<2>>], [k |-> "list", v |-> <<1, -1>>]>>,
    <<[k |-> "list", v |-> <<>>], [k |-> "list", v |-> <<>>]>>,
    <<[k |-> "none", v |-> <<>>], [k |-> "list", v |-> <<2>>]>>,
    <<[k |-> "list", v |-> <<2>>], [k |-> "none", v |-> <<>>]>> }

MultiArgs ==
  { e @@ [theta |-> an[1], phi |-> an[2], ell |-> rq[1], m |-> rq[2],
          mode_sum |-> ms, fake_neg_modes |-> fn] :
      e \in EvalArgs({FitMin - 1, FitMin + 1}, {<<None, None>>, <<Some(2), Some(1)>>},
                     {None, Some(1)}, {None, Some(0)}),
      an \in Angles, rq \in ModeRequests, ms \in BOOLEAN, fn \in BOOLEAN }

\* the arguments of a direct call of evaluate_single_mode(_minus)
DirectArgs == EvalArgs({FitMin - 1, FitMin + 1}, {<<None, None>>, <<Some(2), Some(1)>>},
                       {None, Some(1)}, {None, Some(0)})
ModeUniverse == { <<l, m>> : l \in 2..MaxEll, m \in (-MaxEll)..MaxEll }

\* the arguments q, (M, dist) of h_sphere_builder
BuilderQs == {FitMin - 1, FitMin + 1}
BuilderPhys == { <<None, None>>, <<Some(2), Some(1)>> }
\* the times a closure is called with: inside its window, the end points
\* included, and outside on either side
SphereTimes(c) ==
  { <<c.t_min>>, <<c.t_max>>, <<c.t_min, c.t_max>>,
    <<c.t_min - 1, c.t_min>>, <<c.t_max, c.t_max + 1>>, <<c.t_min - 1, c.t_max + 1>> }
\* z_rot and psi_rot
Rotations == {None, Some(1)}

(***************************************************************************)
(* The state: the multi-mode surrogate (None until constructed) and the    *)
(* operation in progress with its arguments and its outcome; the caller    *)
(* takes the outcome (Return) before it starts the next operation.         *)
(***************************************************************************)
VARIABLES sur, last
vars == <<sur, last>>

Init ==
  /\ sur = None
  /\ last = [op |-> "none"]

\* EvaluateSurrogate(path): a constructor that raises leaves no object
Construct ==
  /\ IsNone(sur)
  /\ last.op = "none"
  /\ \E cfg \in Configs :
       LET r == MultiInit(cfg.keys, cfg.smt, cfg.amap)
       IN /\ sur' = IF r.err = "none" THEN Some(r.self) ELSE None
          /\ last' = [op |-> "init", cfg |-> cfg, err |-> r.err]

\* self.single_modes[key](q, M, dist, phi_ref, f_low, samples, samples_units)
SingleCall ==
  /\ ~IsNone(sur)
  /\ last.op = "none"
  /\ \E key \in DOMAIN Val(sur).single_modes, a \in SingleArgs :
       /\ last' = [op |-> "single", key |-> key, a |-> a,
                   res |-> SingleModeCall(Val(sur).single_modes[key], a.q, a.M, a.dist,
                                          a.phi_ref, a.f_low, a.samples, a.samples_units)]
       /\ UNCHANGED sur

\* self(q, M, dist, theta, phi, phi_ref, f_low, samples, samples_units, ell, m,
\*      mode_sum, fake_neg_modes)
Evaluate ==
  /\ ~IsNone(sur)
  /\ last.op = "none"
  /\ \E a \in MultiArgs :
       /\ last' = [op |-> "multi", a |-> a, res |-> MultiCall(Val(sur), a)]
       /\ sur' = Some(SelfAfterMultiCall(Val(sur), a))

\* self.generate_mode_eval_list(ell, m, minus_m)
ModeList ==
  /\ ~IsNone(sur)
  /\ last.op = "none"
  /\ \E rq \in ModeRequests, minus_m \in BOOLEAN :
       /\ last' = [op |-> "generate_mode_eval_list", ell |-> rq[1], m |-> rq[2],
                   minus_m |-> minus_m,
                   res |-> GenerateModeEvalList(Val(sur), rq[1], rq[2], minus_m)]
       /\ sur' = Some(SelfAfterGenerateModeEvalList(Val(sur), rq[1], rq[2], minus_m))

\* self.evaluate_single_mode(q, M, dist, phi_ref, f_low, samples, samples_units, ell, m)
SingleModeDirect ==
  /\ ~IsNone(sur)
  /\ last.op = "none"
  /\ \E a \in DirectArgs, mode \in ModeUniverse :
       /\ last' = [op |-> "evaluate_single_mode", a |-> a, ell |-> mode[1], m |-> mode[2],
                   res |-> EvaluateSingleMode(Val(sur), a, mode[1], mode[2])]
       /\ UNCHANGED sur

\* self.evaluate_single_mode_minus(q, M, dist, phi_ref, f_low, samples, samples_units, ell, m)
SingleModeMinus ==
  /\ ~IsNone(sur)
  /\ last.op = "none"
  /\ \E a \in DirectArgs, mode \in ModeUniverse :
       /\ last' = [op |-> "evaluate_single_mode_minus", a |-> a, ell |-> mode[1], m |-> mode[2],
                   res |-> EvaluateSingleModeMinus(Val(sur), a, mode[1], mode[2])]
       /\ UNCHANGED sur

\* self.h_sphere_builder(q, M, dist, ell, m)
SphereBuilder ==
  /\ ~IsNone(sur)
  /\ last.op = "none"
  /\ \E q \in BuilderQs, ph \in BuilderPhys, rq \in ModeRequests :
       /\ last' = [op |-> "h_sphere_builder", q |-> q, M |-> ph[1], dist |-> ph[2],
                   ell |-> rq[1], m |-> rq[2],
                   res |-> HSphereBuilder(Val(sur), q, ph[1], ph[2], rq[1], rq[2])]
       /\ sur' = Some(SelfAfterHSphereBuilder(Val(sur), q, ph[1], ph[2], rq[1], rq[2]))

\* h_sphere(times, theta, phi, z_rot, psi_rot), h_sphere being the closure
\* h_sphere_builder has just returned
SphereCall ==
  /\ ~IsNone(sur)
  /\ last.op = "h_sphere_builder"
  /\ last.res.err = "none"
  /\ \E times \in SphereTimes(last.res.h_sphere), an \in Angles,
        z_rot \in Rotations, psi_rot \in Rotations :
       /\ last' = [op |-> "h_sphere", h_sphere |-> last.res.h_sphere, times |-> times,
                   theta |-> an[1], phi |-> an[2], z_rot |-> z_rot, psi_rot |-> psi_rot,
                   res |-> HSphere(Val(sur), last.res.h_sphere, times, an[1], an[2],
                                   z_rot, psi_rot)]
       /\ UNCHANGED sur

\* the caller takes the outcome of the operation
Return ==
  /\ last.op # "none"
  /\ last' = [op |-> "none"]
  /\ UNCHANGED sur

Next ==
  \/ Construct
  \/ Return
  \/ SingleCall
  \/ Evaluate
  \/ ModeList
  \/ SingleModeDirect
  \/ SingleModeMinus
  \/ SphereBuilder
  \/ SphereCall

Spec == Init /\ [][Next]_vars

(***************************************************************************)
(* Properties                                                              *)
(***************************************************************************)
\* the single-mode evaluator and the arguments of the single-mode call in progress
CallSelf == Val(sur).single_modes[last.key]
\* the same single-mode call with f_low = None
CallWithoutFLow ==
  SingleModeCall(CallSelf, last.a.q, last.a.M, last.a.dist, last.a.phi_ref, None,
                 last.a.samples, last.a.samples_units)

\* C1: a single-mode evaluate with f_low given whose starting frequency
\* exceeds f_low is not aborted: it returns (t, h_plus, h_cross), the same as
\* the call with f_low = None returns.
C1_FLowWarningDoesNotAbort ==
  (last.op = "single" /\ ~IsNone(last.a.f_low)) =>
    ((CallWithoutFLow.err = "none"
      /\ FindInstantFreqRaises(CallWithoutFLow.hp, CallWithoutFLow.hc, CallWithoutFLow.t,
                               Val(last.a.f_low)))
     => (/\ last.res.err = "none"
         /\ last.res.t = CallWithoutFLow.t
         /\ last.res.hp = CallWithoutFLow.hp
         /\ last.res.hc = CallWithoutFLow.hc))

\* C2: generate_mode_eval_list with l and m lists of equal length n returns
\* exactly the n pairs (l[i], m[i]), in that order.
C2_ParallelListsArePaired ==
  (last.op = "generate_mode_eval_list" /\ last.ell.k = "list" /\ last.m.k = "list"
   /\ Len(last.ell.v) = Len(last.m.v) /\ ~last.minus_m) =>
    (/\ last.res.err = "none"
     /\ last.res.modes = [i \in 1..Len(last.ell.v) |-> <<last.ell.v[i], last.m.v[i]>>])

\* the mode list a multi-mode call resolves, and the modes the model can evaluate
ReqModes == GenerateModeEvalList(Val(sur), last.a.ell, last.a.m, last.a.fake_neg_modes).modes
Avail == AllModelModes(Val(sur), TRUE).modes
IsAvail(mode) == \E k \in 1..Len(Avail) : Avail[k] = mode
\* the evaluation of one available mode with the arguments of the call
ModeEval(mode) ==
  IF mode[2] >= 0 THEN EvaluateSingleMode(Val(sur), last.a, mode[1], mode[2])
  ELSE EvaluateSingleModeMinus(Val(sur), last.a, mode[1], mode[2])
Rows == IF IsNone(last.a.samples) THEN NumTimes ELSE Len(Val(last.a.samples))
\* the waveform of an evaluated mode (r) at the angles of the call
Projected(r, mode) ==
  IF r.err # "none" THEN [err |-> r.err]
  ELSE [err |-> "none"] @@
       EvaluateOnSphere(mode[1], mode[2], last.a.theta, last.a.phi, r.hp, r.hc)
\* what a requested mode contributes: its waveform, or zeros when the model
\* does not have it
Contribution(mode) ==
  IF IsAvail(mode) THEN Projected(ModeEval(mode), mode)
  ELSE [err |-> "none", hp |-> Zeros(Rows), hc |-> Zeros(Rows)]
Contributions(modes) == [i \in 1..Len(modes) |-> Contribution(modes[i])]

\* C3: in a multi-mode evaluate a requested mode that the model does not have
\* contributes zeros and never makes the call fail, whichever requested modes
\* are absent, all of them included.
C3_AbsentModesAreZero ==
  (last.op = "multi" /\ last.res.resolved /\ last.a.mode_sum /\ ReqModes # <<>>) =>
    \A c \in {Contributions(ReqModes)} :
      (\A i \in 1..Len(c) : c[i].err = "none") =>
        (/\ last.res.err = "none"
         /\ last.res.hp = [row \in 1..Rows |-> ISum([i \in 1..Len(c) |-> c[i].hp[row]])]
         /\ last.res.hc = [row \in 1..Rows |-> ISum([i \in 1..Len(c) |-> c[i].hc[row]])])

\* C4: with mode_sum=False a multi-mode evaluate returns, for every non-empty
\* mode list (one mode included), the sorted mode list, t, and two matrices
\* with one row per time sample and one column per mode, column i holding the
\* waveform of mode_list[i].
C4_OneColumnPerMode ==
  (last.op = "multi" /\ last.res.resolved /\ ~last.a.mode_sum
   /\ \E i \in 1..Len(ReqModes) : IsAvail(ReqModes[i])) =>
    \A c \in {Contributions(SortModeList(ReqModes))} :
      (\A i \in 1..Len(c) : c[i].err = "none") =>
        (/\ last.res.err = "none"
         /\ last.res.modes = SortModeList(ReqModes)
         /\ last.res.hp = [row \in 1..Rows |-> [i \in 1..Len(c) |-> c[i].hp[row]]]
         /\ last.res.hc = [row \in 1..Rows |-> [i \in 1..Len(c) |-> c[i].hc[row]]])

\* the dimensionless times a single-mode call evaluates the waveform at
DimensionlessTimes ==
  IF IsNone(last.a.samples) THEN CallSelf.times
  ELSE IF last.a.samples_units = "mks"
  THEN [i \in 1..Len(Val(last.a.samples)) |->
          Val(last.a.samples)[i] \div TScaleOf(<<last.a.M, last.a.dist>>)]
  ELSE Val(last.a.samples)

\* C5: a single-mode evaluate returns t in mks units (the dimensionless times
\* multiplied by Msuninsec*M) when M and dist are both given and dimensionless
\* otherwise, whatever samples and samples_units are.
C5_TimeUnits ==
  (last.op = "single" /\ last.res.err = "none") =>
    last.res.t = IF ~IsNone(last.a.M) /\ ~IsNone(last.a.dist)
                 THEN VScale(Msuninsec * Val(last.a.M), DimensionlessTimes)
                 ELSE DimensionlessTimes


\* C6: for a trained mode (l, m) with m > 0, evaluate_single_mode_minus for
\* (l, -m) ends as evaluate_single_mode for (l, m) with the same arguments
\* does, and when that returns (t, hp, hc) it returns the same t,
\* (-1)^l * hp and -(-1)^l * hc.
C6_NegativeModeSymmetry ==
  (last.op = "evaluate_single_mode_minus" /\ last.m < 0
   /\ <<last.ell, -last.m>> \in DOMAIN Val(sur).single_modes) =>
    \A plus \in {EvaluateSingleMode(Val(sur), last.a, last.ell, -last.m)} :
      /\ last.res.err = plus.err
      /\ plus.err = "none" =>
           (/\ last.res.t = plus.t
            /\ last.res.hp = VScale(PowMinus1(last.ell), plus.hp)
            /\ last.res.hc = VScale(-PowMinus1(last.ell), plus.hc))

\* a (l, -m) waveform was derived from a trained mode of odd l whose h_cross
\* is not zero
C6_Witness ==
  /\ last.op = "evaluate_single_mode_minus"
  /\ last.m < 0
  /\ last.ell = MaxEll
  /\ last.res.err = "none"
  /\ \E i \in 1..Len(last.res.hc) : last.res.hc[i] # 0
  /\ \E i \in 1..Len(last.res.hp) : last.res.hp[i] # 0

\* the multi-mode call in progress with mode_sum=False
CallPerMode == MultiCall(Val(sur), [last.a EXCEPT !.mode_sum = FALSE])

\* C7: whenever a multi-mode evaluate with mode_sum=True returns, the same
\* call with mode_sum=False returns too, and (hp, hc) of the former is the sum
\* over the columns of the matrices of the latter, at every time sample.
C7_ModeSumIsColumnSum ==
  (last.op = "multi" /\ last.a.mode_sum /\ last.res.err = "none") =>
    \A cols \in {CallPerMode} :
      /\ cols.err = "none"
      /\ last.res.hp = [row \in 1..Len(last.res.hp) |-> ISum(cols.hp[row])]
      /\ last.res.hc = [row \in 1..Len(last.res.hc) |-> ISum(cols.hc[row])]

\* C8: a multi-mode evaluate with phi_ref given raises ValueError before the
\* mode list is resolved and before any single-mode evaluator is called, and
\* returns nothing.
C8_PhiRefIsRefused ==
  (last.op = "multi" /\ ~IsNone(last.a.phi_ref)) =>
    (/\ last.res.err = "ValueError"
     /\ ~last.res.resolved
     /\ last.res.ncalls = 0
     /\ DOMAIN last.res = {"err", "resolved", "ncalls", "warned"})

\* a multi-mode evaluate of a trained mode, inside the fit interval, was given
\* phi_ref and refused
C8_Witness ==
  /\ last.op = "multi"
  /\ ~IsNone(last.a.phi_ref)
  /\ last.a.ell.k = "list" /\ last.a.m.k = "list"
  /\ Len(last.a.ell.v) = 1 /\ Len(last.a.m.v) = 1
  /\ <<last.a.ell.v[1], last.a.m.v[1]>> \in DOMAIN Val(sur).single_modes
  /\ last.a.mode_sum
  /\ last.a.samples_units = "dimensionless"
  /\ last.res.err = "ValueError"

\* C9: evaluate_single_mode with m < 0 and evaluate_single_mode_minus with
\* m >= 0 raise ValueError for every l and every other argument, without
\* calling a single-mode evaluator and without returning a waveform.
C9_WrongSignIsRefused ==
  ((last.op = "evaluate_single_mode" /\ last.m < 0)
   \/ (last.op = "evaluate_single_mode_minus" /\ last.m >= 0)) =>
    (/\ last.res.err = "ValueError"
     /\ last.res.ncalls = 0
     /\ DOMAIN last.res = {"err", "ncalls", "warned"})

\* evaluate_single_mode was asked for (l, -m), (l, m) being a trained mode,
\* and refused
C9_Witness ==
  /\ last.op = "evaluate_single_mode"
  /\ last.m < 0
  /\ <<last.ell, -last.m>> \in DOMAIN Val(sur).single_modes
  /\ last.res.err = "ValueError"

\* the closed sets of the tags
ModeTypes == {"waveform_basis", "amp_phase_basis"}
AffineMaps == {"minus1_to_1", "zero_to_1", "none"}

\* C10 as stated: every constructed single-mode evaluator has its
\* representation tag in {waveform_basis, amp_phase_basis} and its affine_map
\* tag in {minus1_to_1, zero_to_1, none}.
C10_TagsClosedAtConstruction ==
  ~IsNone(sur) =>
    \A key \in DOMAIN Val(sur).single_modes :
      /\ Val(sur).single_modes[key].surrogate_mode_type \in ModeTypes
      /\ Val(sur).single_modes[key].affine_map \in AffineMaps

\* C10 amended: every constructed single-mode evaluator has its representation
\* tag in {waveform_basis, amp_phase_basis}, construction with another
\* representation raising ValueError; affine_map is not checked at
\* construction, and every evaluate of an evaluator whose affine_map is not in
\* {minus1_to_1, zero_to_1, none} raises ValueError and returns no waveform.
C10_TagsCheckedAmended ==
  /\ ~IsNone(sur) =>
       \A key \in DOMAIN Val(sur).single_modes :
         Val(sur).single_modes[key].surrogate_mode_type \in ModeTypes
  /\ (last.op = "init" /\ last.cfg.keys # <<>> /\ last.cfg.smt \notin ModeTypes) =>
       (last.err = "ValueError" /\ IsNone(sur))
  /\ (last.op = "single" /\ CallSelf.affine_map \notin AffineMaps) =>
       (last.res.err = "ValueError" /\ DOMAIN last.res = {"err", "warned"})

\* an evaluator constructed with an unknown affine_map was evaluated with
\* supported samples_units, and raised
C10_Witness ==
  /\ last.op = "single"
  /\ CallSelf.affine_map \notin AffineMaps
  /\ last.a.samples_units = "dimensionless"
  /\ last.res.err = "ValueError"


\* the parameter of the single-mode call in progress, and whether it is
\* outside fit_interval
CallX == GetSurrParams(last.a.q)
CallXOutside == CallX < CallSelf.fit_interval[1] \/ CallX > CallSelf.fit_interval[2]
\* x0 is the fraction num/den
IsFraction(x_0, num, den) == x_0[1] * den = num * x_0[2]
\* the value the affine map of the evaluator gives to x
IsAffineValue(self, x, x_0) ==
  LET x_min == self.fit_interval[1]
      x_max == self.fit_interval[2]
  IN IF self.affine_map = "minus1_to_1"
     THEN IsFraction(x_0, 2 * (x - x_min) - (x_max - x_min), x_max - x_min)
     ELSE IF self.affine_map = "zero_to_1"
     THEN IsFraction(x_0, x - x_min, x_max - x_min)
     ELSE IsFraction(x_0, x, 1)

\* C11: in a single-mode evaluate with x outside fit_interval (supported
\* samples_units, known affine_map) the warning is emitted, x0 is the value of
\* the affine-map formula at x, and the call returns (t, hp, hc).
C11_ExtrapolationOnlyWarns ==
  (last.op = "single" /\ CallXOutside /\ CallSelf.affine_map \in AffineMaps
   /\ last.a.samples_units \in {"dimensionless", "mks"}) =>
    \A am \in {AffineMapperChecker(CallSelf, CallX)} :
      /\ am.err = "none" /\ am.warned
      /\ IsAffineValue(CallSelf, CallX, am.x_0)
      /\ last.res.warned
      /\ last.res.err = "none"
      /\ {"t", "hp", "hc"} \subseteq DOMAIN last.res

\* the list generate_mode_eval_list builds before any extension, for a
\* request (ell, m) it accepts
BaseModes(ell, m) == GenerateModeEvalList(Val(sur), ell, m, FALSE)
HasNegativeMode(modes) == \E i \in 1..Len(modes) : modes[i][2] < 0

\* C12: generate_mode_eval_list with minus_m=True raises ValueError, and
\* returns no list, whenever the list it built from ell and m holds a mode
\* with m < 0, wherever that mode is; a multi-mode evaluate with
\* fake_neg_modes=True then raises too, with no evaluator called.
C12_NegativeModeRefusesExtension ==
  /\ (last.op = "generate_mode_eval_list" /\ last.minus_m) =>
       \A base \in {BaseModes(last.ell, last.m)} :
         (base.err = "none" /\ HasNegativeMode(base.modes)) =>
           last.res.err = "ValueError"
  /\ (last.op = "multi" /\ last.a.fake_neg_modes /\ IsNone(last.a.phi_ref)) =>
       \A base \in {BaseModes(last.a.ell, last.a.m)} :
         (base.err = "none" /\ HasNegativeMode(base.modes)) =>
           (/\ last.res.err = "ValueError"
            /\ ~last.res.resolved
            /\ last.res.ncalls = 0
            /\ DOMAIN last.res = {"err", "resolved", "ncalls", "warned"})

\* an extension was refused for a list whose first mode has m > 0 and whose
\* last mode has m < 0
C12_Witness ==
  /\ last.op = "generate_mode_eval_list"
  /\ last.minus_m
  /\ last.ell.k = "list" /\ last.m.k = "list"
  /\ Len(BaseModes(last.ell, last.m).modes) >= 2
  /\ BaseModes(last.ell, last.m).modes[1][2] > 0
  /\ BaseModes(last.ell, last.m).modes[Len(BaseModes(last.ell, last.m).modes)][2] < 0
  /\ last.res.err = "ValueError"


\* the times of the closure call in progress are outside the window of the
\* closure
TimesOutside ==
  \E i \in 1..Len(last.times) :
    last.times[i] < last.h_sphere.t_min \/ last.times[i] > last.h_sphere.t_max

\* C13: the window of a closure h_sphere_builder returns is the minimum and
\* the maximum of the time grid the builder evaluated; the closure raises
\* ValueError, returning nothing, when a time is below t_min or above t_max,
\* whatever theta, phi, z_rot and psi_rot are, and with every time in
\* [t_min, t_max], end points included, it returns unless psi_rot is given.
C13_TimeWindow ==
  /\ (last.op = "h_sphere_builder" /\ last.res.err = "none") =>
       \A t_scale \in {TScaleOf(<<last.M, last.dist>>)} :
         /\ last.res.h_sphere.t_min = t_scale * TimeAllModes(Val(sur))[1]
         /\ last.res.h_sphere.t_max = t_scale * TimeAllModes(Val(sur))[NumTimes]
         /\ last.res.window = <<last.res.h_sphere.t_min, last.res.h_sphere.t_max>>
  /\ (last.op = "h_sphere" /\ TimesOutside) =>
       (last.res.err = "ValueError" /\ DOMAIN last.res = {"err"})
  /\ (last.op = "h_sphere" /\ ~TimesOutside /\ IsNone(last.psi_rot)) =>
       (last.res.err = "none" /\ DOMAIN last.res = {"err", "hp", "hc"})

\* a closure was called at the two end points of its window, rotated about
\* the z axis, and returned a waveform on the sphere
C13_Witness ==
  /\ last.op = "h_sphere"
  /\ last.times = <<last.h_sphere.t_min, last.h_sphere.t_max>>
  /\ last.h_sphere.t_min < last.h_sphere.t_max
  /\ ~IsNone(last.theta) /\ ~IsNone(last.phi) /\ ~IsNone(last.z_rot)
  /\ last.res.err = "none"
  /\ \E i \in 1..Len(last.res.hp) : last.res.hp[i] # 0


MapRange == (-MaxX)..MaxX

MapInit ==
  /\ sur \in { Some([LoadSingleMode(2, 2, "waveform_basis", amap)
                       EXCEPT !.fit_interval = <<x_min, x_max>>]) :
                 x_min \in MapRange, x_max \in MapRange, amap \in AffineMaps }
  /\ Val(sur).fit_interval[1] < Val(sur).fit_interval[2]
  /\ last = [op |-> "none"]

\* self._affine_mapper_checker(x)
Normalize ==
  /\ last.op = "none"
  /\ \E x \in MapRange :
       last' = [op |-> "_affine_mapper_checker", x |-> x,
                res |-> AffineMapperChecker(Val(sur), x)]
  /\ UNCHANGED sur

MapNext ==
  \/ Normalize
  \/ Return

MapSpec == MapInit /\ [][MapNext]_vars

\* the fraction a is at most the fraction b (denominators positive)
FractionLeq(a, b) == a[1] * b[2] <= b[1] * a[2]

\* C15: over fit_interval = (x_min, x_max) with x_min < x_max, minus1_to_1
\* maps x_min to -1 and x_max to 1, zero_to_1 maps x_min to 0 and x_max to 1,
\* none returns x, and the map is non-decreasing over the interval.
C15_AffineMapEndPoints ==
  last.op = "_affine_mapper_checker" =>
    \A x_min \in {Val(sur).fit_interval[1]}, x_max \in {Val(sur).fit_interval[2]} :
      /\ last.res.err = "none"
      /\ (Val(sur).affine_map = "minus1_to_1" /\ last.x = x_min) =>
           IsFraction(last.res.x_0, -1, 1)
      /\ (Val(sur).affine_map = "zero_to_1" /\ last.x = x_min) =>
           IsFraction(last.res.x_0, 0, 1)
      /\ (Val(sur).affine_map \in {"minus1_to_1", "zero_to_1"} /\ last.x = x_max) =>
           IsFraction(last.res.x_0, 1, 1)
      /\ Val(sur).affine_map = "none" => IsFraction(last.res.x_0, last.x, 1)
      /\ \A y \in MapRange :
           (x_min <= last.x /\ last.x <= y /\ y <= x_max) =>
             FractionLeq(last.res.x_0, AffineMapperChecker(Val(sur), y).x_0)

\* minus1_to_1 mapped the upper end of an interval longer than 1, which does
\* not start at 0, to 1
C15_Witness ==
  /\ last.op = "_affine_mapper_checker"
  /\ Val(sur).affine_map = "minus1_to_1"
  /\ Val(sur).fit_interval[1] # 0
  /\ Val(sur).fit_interval[2] - Val(sur).fit_interval[1] > 1
  /\ last.x = Val(sur).fit_interval[2]
  /\ last.res.x_0[1] = last.res.x_0[2]


\* C16: a single-mode evaluate with samples_units other than 'dimensionless'
\* and 'mks' raises ValueError before the parameter is mapped: no
\* extrapolation warning is emitted, x being outside fit_interval or not, and
\* nothing is returned.
C16_SamplesUnitsRejectedFirst ==
  (last.op = "single" /\ last.a.samples_units \notin {"dimensionless", "mks"}) =>
    (/\ last.res.err = "ValueError"
     /\ ~last.res.warned
     /\ DOMAIN last.res = {"err", "warned"})

\* an evaluate with unsupported samples_units and x outside fit_interval was
\* rejected, on an evaluator that would have mapped x
C16_Witness ==
  /\ last.op = "single"
  /\ last.a.samples_units \notin {"dimensionless", "mks"}
  /\ CallXOutside
  /\ CallSelf.affine_map \in AffineMaps
  /\ last.res.err = "ValueError"
  /\ ~last.res.warned


\* how many times a mode is in a list
CountOf(modes, mode) == Cardinality({i \in 1..Len(modes) : modes[i] = mode})

\* C17: generate_mode_eval_list with ell an integer and m=None returns every
\* (L, M) with 2 <= L <= ell and 0 <= M <= L exactly once and nothing else,
\* and with minus_m=True every (L, M) with 2 <= L <= ell and -L <= M <= L
\* exactly once and nothing else.
C17_IntegerBoundList ==
  (last.op = "generate_mode_eval_list" /\ last.ell.k = "int" /\ last.m.k = "none") =>
    /\ last.res.err = "none"
    /\ \A LMax \in {last.ell.v[1]} :
         \A L \in 0..(LMax + 1), M \in (-(LMax + 1))..(LMax + 1) :
           CountOf(last.res.modes, <<L, M>>) =
             IF 2 <= L /\ L <= LMax /\ M <= L /\ (IF last.minus_m THEN -L <= M ELSE 0 <= M)
             THEN 1 ELSE 0
    /\ \A i \in 1..Len(last.res.modes) :
         /\ last.res.modes[i][1] \in 2..last.ell.v[1]
         /\ last.res.modes[i][2] \in (-last.res.modes[i][1])..last.res.modes[i][1]

\* the list up to the largest bound was generated with its mirrored modes
C17_Witness ==
  /\ last.op = "generate_mode_eval_list"
  /\ last.ell.k = "int" /\ last.m.k = "none"
  /\ last.ell.v[1] = MaxEll
  /\ last.minus_m
  /\ last.res.err = "none"
  /\ CountOf(last.res.modes, <<MaxEll, -MaxEll>>) = 1
  /\ CountOf(last.res.modes, <<2, 0>>) = 1


\* (l, -m) for a mode (l, m), m > 0, of the model
IsMirrored(mode) == mode[2] < 0 /\ <<mode[1], -mode[2]>> \in DOMAIN Val(sur).single_modes
\* the waveform the symmetry derives for a mirrored mode from the evaluation
\* (plus) of the model's mode
SymmetryOf(plus, mode) ==
  IF plus.err # "none" THEN [err |-> plus.err]
  ELSE [err |-> "none", hp |-> VScale(PowMinus1(mode[1]), plus.hp),
        hc |-> VScale(-PowMinus1(mode[1]), plus.hc)]
\* what a requested mode is to contribute at the angles of the call: the
\* symmetry-derived waveform for a mirrored mode, the evaluator's for a mode of
\* the model, zeros for any other
Expected(mode) ==
  IF IsMirrored(mode)
  THEN Projected(SymmetryOf(EvaluateSingleMode(Val(sur), last.a, mode[1], -mode[2]), mode), mode)
  ELSE IF mode \in DOMAIN Val(sur).single_modes
  THEN Projected(EvaluateSingleMode(Val(sur), last.a, mode[1], mode[2]), mode)
  ELSE [err |-> "none", hp |-> Zeros(Rows), hc |-> Zeros(Rows)]
ExpectedAll(modes) == [i \in 1..Len(modes) |-> Expected(modes[i])]

\* C18: a multi-mode evaluate with fake_neg_modes=False (supported
\* samples_units, known affine_map) whose mode list names (l, -m), (l, m)
\* being a mode of the model with m > 0, evaluates that mode by the symmetry
\* and returns: with mode_sum=True the sum that holds the symmetry-derived
\* waveform, with mode_sum=False the matrices whose column for (l, -m) is that
\* waveform.
C18_MirroredModesAreAvailable ==
  (last.op = "multi" /\ last.res.resolved /\ ~last.a.fake_neg_modes
   /\ last.a.samples_units \in {"dimensionless", "mks"}
   /\ (\A key \in DOMAIN Val(sur).single_modes :
         Val(sur).single_modes[key].affine_map \in AffineMaps)
   /\ \E i \in 1..Len(ReqModes) : IsMirrored(ReqModes[i])) =>
    \A c \in {ExpectedAll(IF last.a.mode_sum THEN ReqModes ELSE SortModeList(ReqModes))} :
      /\ \A i \in 1..Len(c) : c[i].err = "none"
      /\ last.res.err = "none"
      /\ IF last.a.mode_sum
         THEN /\ last.res.hp = [row \in 1..Rows |-> ISum([i \in 1..Len(c) |-> c[i].hp[row]])]
              /\ last.res.hc = [row \in 1..Rows |-> ISum([i \in 1..Len(c) |-> c[i].hc[row]])]
         ELSE /\ last.res.hp = [row \in 1..Rows |-> [i \in 1..Len(c) |-> c[i].hp[row]]]
              /\ last.res.hc = [row \in 1..Rows |-> [i \in 1..Len(c) |-> c[i].hc[row]]]

====
